---- MODULE Spec2Model ----
(***************************************************************************)
(* ebs-snapshot.py: a run of the script is a sequence of EC2 calls.        *)
(* The state is the EC2 account (its snapshots and their tags), the host   *)
(* (clock, local time zone), the parsed options and the position of the    *)
(* script with its local variables.                                        *)
(*                                                                         *)
(* Python strings are sequences of tokens: 'a' + 'b' is <<"a">> \o <<"b">> *)
(* and str(n) is the sequence of the decimal digits of n.                  *)
(***************************************************************************)
EXTENDS Integers, Sequences, FiniteSets, TLC

VARIABLES
    args,              \* parse_options(): list_volumes, volume_ids, expire_after
    zone,              \* the host's local time zone, as time.mktime sees it
    now,               \* the clock, in seconds (UTC)
    ticks,             \* how often the clock has been advanced
    snapshots,         \* EC2: snapshot id -> VolumeId, StartTime, Description, Tags
    nextId,            \* EC2: the id the next created snapshot gets
    createdIn,         \* history: snapshot id -> the run that created it (0: before)
    run,               \* the number of the current run
    pc,                \* position of the script
    volume_ids_list,   \* line 329
    idx,               \* snapshot_volumes: index of volume_id in volume_list
    volume_infos,      \* snapshot_volumes: line 198
    snapshot_id,       \* snapshot_volumes: line 209
    instance_hostname, \* snapshot_volumes: line 211
    tag_no,            \* snapshot_volumes: which of lines 213-215 is next
    snapshot_list,     \* cleanup_snapshots: line 273
    sidx,              \* cleanup_snapshots: index of snapshot in snapshot_list
    exit_code,         \* the process's exit status, NotExited while it runs
    raised,            \* what ended the run
    calls,             \* history: the EC2 calls of this run, in order
    checked,           \* history: is_snapshot_expired's results in this run
    log,               \* the warnings and errors logged by this run
    stdout             \* the lines printed by this run

vars == <<args, zone, now, ticks, snapshots, nextId, createdIn, run, pc,
          volume_ids_list, idx, volume_infos, snapshot_id, instance_hostname,
          tag_no, snapshot_list, sidx, exit_code, raised, calls, checked, log, stdout>>

----------------------------------------------------------------------------
(* Bounds *)

MaxIds == 3        \* longest --volume-ids list
MaxTicks == 1      \* clock advances per behaviour

----------------------------------------------------------------------------
(* Python values *)

None == <<"None">>
NotExited == -1

seconds_in_day == 60 * 60 * 24

Digit == <<"0", "1", "2", "3", "4", "5", "6", "7", "8", "9">>

RECURSIVE digits(_)
digits(n) == IF n < 10 THEN <<Digit[n + 1]>>
             ELSE digits(n \div 10) \o <<Digit[(n % 10) + 1]>>

\* str(n) for an int n
str(n) == IF n < 0 THEN <<"-">> \o digits(-n) ELSE digits(n)

DigitValue(c) == CHOOSE d \in 0..9 : Digit[d + 1] = c

IsDigit(c) == \E d \in 0..9 : Digit[d + 1] = c

RECURSIVE value(_)
value(s) == IF s = <<>> THEN 0
            ELSE 10 * value(SubSeq(s, 1, Len(s) - 1)) + DigitValue(s[Len(s)])

\* int(s) for a str s: an optional sign and decimal digits, else ValueError
int(s) ==
    LET signed == s # <<>> /\ s[1] \in {"-", "+"}
        body   == IF signed THEN Tail(s) ELSE s
    IN  IF body # <<>> /\ \A i \in 1..Len(body) : IsDigit(body[i])
        THEN [ok |-> TRUE,
              val |-> IF signed /\ s[1] = "-" THEN -value(body) ELSE value(body)]
        ELSE [ok |-> FALSE, val |-> 0]

Range(s) == {s[i] : i \in 1..Len(s)}

RECURSIVE Perms(_)
Perms(S) == IF S = {} THEN {<<>>}
            ELSE UNION {{<<x>> \o p : p \in Perms(S \ {x})} : x \in S}

----------------------------------------------------------------------------
(* The host's clock and time zone *)

\* std: the zone's standard offset from UTC; save: the daylight saving in
\* effect on the host during the run (0 when none is).
Zones == {[name |-> "UTC", std |-> 0, save |-> 0],
          [name |-> "America/New_York, summer", std |-> -18000, save |-> 3600],
          [name |-> "Europe/Dublin, winter", std |-> 3600, save |-> -3600]}

\* datetime.timetuple(): the broken-down fields of the instant, sub-second
\* part dropped; tm_isdst is -1 for a naive datetime (utcnow()) and 0 for an
\* aware one whose tzinfo.dst() is zero (StartTime, tzutc).
timetuple(t, aware) == [secs |-> t, tm_isdst |-> IF aware THEN 0 ELSE -1]

\* time.mktime(): the fields read as LOCAL time; with tm_isdst = 0 as local
\* standard time, with tm_isdst = -1 as whatever the zone has in effect.
mktime(tt) == tt.secs - zone.std - (IF tt.tm_isdst = -1 THEN zone.save ELSE 0)

\* date.today(): the local date, as a day number
today == (now + zone.std + zone.save) \div seconds_in_day

T0 == 3 * seconds_in_day

TickSteps == {1, seconds_in_day}

----------------------------------------------------------------------------
(* The EC2 account *)

Volumes == {"vol-1", "vol-2"}

VolumeTable ==
    [v \in Volumes |->
        IF v = "vol-1"
        THEN [VolumeId |-> v, SnapshotId |-> <<>>,
              Attachments |-> <<[InstanceId |-> "i-1", Device |-> "/dev/sda1",
                                 State |-> "attached"]>>]
        ELSE [VolumeId |-> v, SnapshotId |-> <<"snap-0">>, Attachments |-> <<>>]]

\* describe_tags, Filters resource-id and key = fqdn
FqdnTags(resource) == IF resource = "i-1" THEN <<[Value |-> "host1"]>> ELSE <<>>

NoVolume == [VolumeId |-> "", SnapshotId |-> <<>>, Attachments |-> <<>>]

AutomatedBackup == <<"AutomatedBackup">>

Tagged(kvs) == [k \in {kv[1] : kv \in kvs} |-> (CHOOSE kv \in kvs : kv[1] = k)[2]]

\* The snapshots an account may hold before the first run: any user of the
\* account can create and tag snapshots.
PreExisting ==
    {[VolumeId |-> "vol-1", StartTime |-> T0 - seconds_in_day - 1,
      Description |-> <<"manual">>, Tags |-> t] :
        t \in {Tagged({}),
               Tagged({<<"CreatedBy", AutomatedBackup>>}),
               Tagged({<<"CreatedBy", AutomatedBackup>>,
                       <<"ExpirationTime", <<"3", "0", "d">> >>}),
               Tagged({<<"CreatedBy", <<"Someone">> >>,
                       <<"ExpirationTime", str(0)>>})}}
    \cup
    {[VolumeId |-> "vol-1", StartTime |-> T0 - age,
      Description |-> <<"vol-1", "-", "i-1", "-backup-">> \o str(1),
      Tags |-> Tagged({<<"Name", <<"host1", "-", "/dev/sda1">> >>,
                       <<"ExpirationTime", str(seconds_in_day)>>,
                       <<"CreatedBy", AutomatedBackup>>})] :
        age \in {seconds_in_day}}

----------------------------------------------------------------------------
(* Initial state: the options, the host and the account before the run *)

VolumeIdLists == UNION {[1..n -> Volumes] : n \in 1..MaxIds}

ExpireAfterDays == {0, 1}

Args == [list_volumes : BOOLEAN,
         volume_ids   : {None} \cup VolumeIdLists,
         expire_after : ExpireAfterDays]

Accounts == {<<>>} \cup {<<p>> : p \in PreExisting}

\* The account with snapshot id added, and with it removed
WithSnapshot(snaps, id, rec) ==
    [i \in DOMAIN snaps \cup {id} |-> IF i = id THEN rec ELSE snaps[i]]

WithoutSnapshot(snaps, id) == [i \in DOMAIN snaps \ {id} |-> snaps[i]]

FreshLocals ==
    /\ volume_ids_list = <<>>
    /\ idx = 0
    /\ volume_infos = NoVolume
    /\ snapshot_id = 0
    /\ instance_hostname = <<>>
    /\ tag_no = 0
    /\ snapshot_list = <<>>
    /\ sidx = 0

Init ==
    /\ args \in Args
    /\ zone \in Zones
    /\ now = T0
    /\ ticks = 0
    /\ snapshots \in Accounts
    /\ nextId = Len(snapshots) + 1
    /\ createdIn = [i \in DOMAIN snapshots |-> 0]
    /\ run = 1
    /\ pc = "initialize_aws_api"
    /\ FreshLocals
    /\ exit_code = NotExited
    /\ raised = "none"
    /\ calls = <<>>
    /\ checked = <<>>
    /\ log = <<>>
    /\ stdout = <<>>

locals == <<volume_ids_list, idx, volume_infos, snapshot_id, instance_hostname,
            tag_no, snapshot_list, sidx>>
account == <<snapshots, nextId, createdIn>>
clock == <<now, ticks>>

----------------------------------------------------------------------------
(* How a run ends *)

Outcomes == {"ok", "ClientError", "Exception"}

\* The except clauses of every helper (lines 121-126, 138-143, ...):
\* ClientError -> sys.exit(1), any other Exception -> sys.exit(2).
HelperExitCode(outcome) == IF outcome = "ClientError" THEN 1 ELSE 2

\* A helper that logs the error and returns instead of exiting
AfterHelperError_Continue(resume) == resume

\* Where a helper's except clause leaves the script: sys.exit raises
\* SystemExit, which no handler of the script catches.
AfterHelperError(resume) == "exited"

Exit(code, why, message) ==
    /\ pc' = "exited"
    /\ exit_code' = code
    /\ raised' = why
    /\ log' = IF message = <<>> THEN log ELSE Append(log, message)

HelperFails(outcome, resume) ==
    /\ pc' = AfterHelperError(resume)
    /\ exit_code' = IF pc' = "exited" THEN HelperExitCode(outcome) ELSE exit_code
    /\ raised' = IF pc' = "exited" THEN outcome ELSE raised
    /\ log' = Append(log, <<"ERROR", outcome>>)

\* Lines 334-340: the script's own handlers. KeyboardInterrupt -> sys.exit(1).
\* Any other Exception is logged and re-raised (line 339), so line 340 is
\* never reached and the interpreter ends with the status of an uncaught
\* exception, 1.
ScriptExceptExitCode(exc) == IF exc = "KeyboardInterrupt" THEN 1 ELSE 1

ScriptExcept(exc) ==
    Exit(ScriptExceptExitCode(exc), exc,
         IF exc = "KeyboardInterrupt" THEN <<"ERROR", "Aborted by user">>
         ELSE <<"ERROR", "An unknown error occured:", exc>>)

Called(op, arg, outcome) ==
    calls' = Append(calls, [op |-> op, arg |-> arg, outcome |-> outcome])

----------------------------------------------------------------------------
(* Lines 94-111 and 319: the session and the EC2 client *)

InitOutcomes == {"ok", "ProfileNotFound", "Exception"}

initialize_aws_api(outcome) ==
    /\ pc = "initialize_aws_api"
    /\ IF outcome = "ok"
       THEN /\ pc' = "main"
            /\ UNCHANGED <<exit_code, raised, log>>
       ELSE Exit(IF outcome = "ProfileNotFound" THEN 1 ELSE 2, outcome,
                 <<"ERROR", outcome>>)
    /\ UNCHANGED <<args, zone, clock, account, run, locals, calls, checked,
                   stdout>>

----------------------------------------------------------------------------
(* Lines 323-329: list mode, the target volumes *)

\* print_volumes_infos without its sys.exit(0): the script goes on to line 327
AfterPrint_FallThrough == "resolve"

\* Line 311: sys.exit(0) once the volumes are printed.
AfterPrint == "exited"

\* Lines 305-310: the line printed for a volume.
VolumeLine(v) ==
    LET snap == IF Len(v.SnapshotId) = 0 THEN <<"No snapshot">> ELSE v.SnapshotId
    IN  IF Len(v.Attachments) > 0
        THEN <<v.VolumeId>> \o snap \o <<v.Attachments[1].State,
               v.Attachments[1].InstanceId, v.Attachments[1].Device>>
        ELSE <<v.VolumeId>> \o snap

\* Lines 325-326 and 303-311: --list-volumes.
print_volumes_infos(outcome) ==
    /\ pc = "main"
    /\ args.list_volumes
    /\ Called("describe_volumes", "all", outcome)
    /\ IF outcome = "ok"
       THEN /\ \E order \in Perms(Volumes) :
                 stdout' = stdout \o [i \in 1..Len(order) |->
                                         VolumeLine(VolumeTable[order[i]])]
            /\ pc' = AfterPrint
            /\ exit_code' = IF pc' = "exited" THEN 0 ELSE exit_code
            /\ raised' = IF pc' = "exited" THEN "SystemExit" ELSE raised
            /\ log' = log
       ELSE /\ HelperFails(outcome, "resolve")
            /\ stdout' = stdout
    /\ UNCHANGED <<args, zone, clock, account, run, locals, checked>>

AtResolve == (pc = "main" /\ ~args.list_volumes) \/ pc = "resolve"

\* list(volume_ids) instead of list(set(volume_ids))
Dedup_None(volume_ids) == {volume_ids}

\* Line 329: list(set(volume_ids)); the order of a set's elements is not
\* specified.
Dedup(volume_ids) == Perms(Range(volume_ids))

\* The first statement of snapshot_volumes' loop body, or what follows the loop.
LoopHead(list, i) == IF i <= Len(list) THEN "get_volume_infos" ELSE "get_snapshots_info"

\* Lines 327-329 with --volume-ids given.
resolve_given ==
    /\ AtResolve
    /\ args.volume_ids # None
    /\ \E list \in Dedup(args.volume_ids) :
          /\ volume_ids_list' = list
          /\ idx' = 1
          /\ pc' = LoopHead(list, 1)
    /\ UNCHANGED <<args, zone, clock, account, run, volume_infos, snapshot_id,
                   instance_hostname, tag_no, snapshot_list, sidx, exit_code,
                   raised, calls, log, stdout, checked>>

\* Lines 327-329 and 284-300 without --volume-ids: every volume of the account.
resolve_all(outcome) ==
    /\ AtResolve
    /\ args.volume_ids = None
    /\ Called("describe_volumes", "all", outcome)
    /\ IF outcome = "ok"
       THEN /\ \E ids \in Perms(Volumes) :
                 /\ args' = [args EXCEPT !.volume_ids = ids]
                 /\ \E list \in Dedup(ids) :
                       /\ volume_ids_list' = list
                       /\ idx' = 1
                       /\ pc' = LoopHead(list, 1)
            /\ UNCHANGED <<exit_code, raised, log>>
       ELSE /\ HelperFails(outcome, "resolve")
            /\ UNCHANGED <<args, volume_ids_list, idx>>
    /\ UNCHANGED <<zone, clock, account, run, volume_infos, snapshot_id,
                   instance_hostname, tag_no, snapshot_list, sidx, stdout, checked>>

----------------------------------------------------------------------------
(* Lines 194-217: snapshot_volumes *)

volume_id == volume_ids_list[idx]

\* Lines 200-205
instance_id == IF Len(volume_infos.Attachments) > 0
               THEN volume_infos.Attachments[1].InstanceId ELSE "detached"

volume_name == IF Len(volume_infos.Attachments) > 0
               THEN volume_infos.Attachments[1].Device ELSE volume_id

\* Line 207
snapshot_description ==
    <<volume_id, "-", instance_id, "-backup-">> \o str(today)

\* Lines 198 and 114-126
get_volume_infos(outcome) ==
    /\ pc = "get_volume_infos"
    /\ Called("describe_volumes", volume_id, outcome)
    /\ IF outcome = "ok"
       THEN /\ volume_infos' = VolumeTable[volume_id]
            /\ pc' = "create_snapshot"
            /\ UNCHANGED <<exit_code, raised, log>>
       ELSE /\ HelperFails(outcome, "create_snapshot")
            /\ UNCHANGED volume_infos
    /\ UNCHANGED <<args, zone, clock, account, run, volume_ids_list, idx,
                   snapshot_id, instance_hostname, tag_no, snapshot_list, sidx,
                   stdout, checked>>

\* EC2 CreateSnapshot: a new snapshot of the volume, started now, untagged.
NewSnapshot(vol, description) ==
    [VolumeId |-> vol, StartTime |-> now, Description |-> description,
     Tags |-> Tagged({})]

\* Lines 209 and 129-143. A request that fails with something other than a
\* ClientError (a lost connection) may or may not have been carried out.
create_snapshot(outcome, applied) ==
    /\ pc = "create_snapshot"
    /\ outcome = "ok" => applied
    /\ outcome = "ClientError" => ~applied
    /\ Called("create_snapshot", volume_id, outcome)
    /\ IF applied
       THEN /\ snapshots' = WithSnapshot(snapshots, nextId,
                                         NewSnapshot(volume_id, snapshot_description))
            /\ nextId' = nextId + 1
            /\ createdIn' = Append(createdIn, run)
       ELSE UNCHANGED account
    /\ IF outcome = "ok"
       THEN /\ snapshot_id' = nextId
            /\ pc' = "get_instance_hostname"
            /\ UNCHANGED <<exit_code, raised, log>>
       ELSE /\ HelperFails(outcome, "get_instance_hostname")
            /\ UNCHANGED snapshot_id
    /\ UNCHANGED <<args, zone, clock, run, volume_ids_list, idx, volume_infos,
                   instance_hostname, tag_no, snapshot_list, sidx, stdout, checked>>

\* Lines 211 and 146-171
get_instance_hostname(outcome) ==
    /\ pc = "get_instance_hostname"
    /\ Called("describe_tags", instance_id, outcome)
    /\ IF outcome = "ok"
       THEN /\ instance_hostname' =
                   IF Len(FqdnTags(instance_id)) > 0
                   THEN <<FqdnTags(instance_id)[1].Value>>
                   ELSE <<instance_id>>
            /\ tag_no' = 1
            /\ pc' = "create_tag"
            /\ UNCHANGED <<exit_code, raised, log>>
       ELSE /\ HelperFails(outcome, "create_tag")
            /\ UNCHANGED <<instance_hostname, tag_no>>
    /\ UNCHANGED <<args, zone, clock, account, run, volume_ids_list, idx,
                   volume_infos, snapshot_id, snapshot_list, sidx, stdout, checked>>

\* The ExpirationTime tag in days instead of seconds
ExpirationTimeValue_Days(expire_after) == str(expire_after)

\* Line 214: the value of the ExpirationTime tag
ExpirationTimeValue(expire_after) == str(seconds_in_day * expire_after)

\* The CreatedBy tag created first instead of last
snapshot_tags_CreatedByFirst(hostname, name, expire_after) ==
    << <<"CreatedBy", AutomatedBackup>>,
       <<"Name", hostname \o <<"-", name>> >>,
       <<"ExpirationTime", str(seconds_in_day * expire_after)>> >>

\* Lines 213-215: the tags of a new snapshot, in the order they are created
snapshot_tags(hostname, name, expire_after) ==
    << <<"Name", hostname \o <<"-", name>> >>,
       <<"ExpirationTime", ExpirationTimeValue(expire_after)>>,
       <<"CreatedBy", AutomatedBackup>> >>

\* EC2 CreateTags: adds the tag, or overwrites the value of an existing key.
WithTag(tags, key, val) ==
    [k \in DOMAIN tags \cup {key} |-> IF k = key THEN val ELSE tags[k]]

\* Lines 213-215 and 174-191, one call each
create_tag(outcome, applied) ==
    /\ pc = "create_tag"
    /\ outcome = "ok" => applied
    /\ outcome = "ClientError" => ~applied
    /\ LET tag == snapshot_tags(instance_hostname, volume_name,
                                args.expire_after)[tag_no]
       IN  /\ Called("create_tags", <<snapshot_id, tag[1]>>, outcome)
           /\ IF applied /\ snapshot_id \in DOMAIN snapshots
              THEN snapshots' = [snapshots EXCEPT ![snapshot_id].Tags =
                                    WithTag(@, tag[1], tag[2])]
              ELSE UNCHANGED snapshots
    /\ IF outcome = "ok"
       THEN /\ IF tag_no < 3
               THEN /\ tag_no' = tag_no + 1
                    /\ pc' = "create_tag"
                    /\ idx' = idx
               ELSE /\ tag_no' = 0
                    /\ idx' = idx + 1
                    /\ pc' = LoopHead(volume_ids_list, idx + 1)
            /\ UNCHANGED <<exit_code, raised, log>>
       ELSE /\ HelperFails(outcome, "create_tag")
            /\ UNCHANGED <<tag_no, idx>>
    /\ UNCHANGED <<args, zone, clock, nextId, createdIn, run, volume_ids_list,
                   volume_infos, snapshot_id, instance_hostname, snapshot_list,
                   sidx, stdout, checked>>

----------------------------------------------------------------------------
(* Lines 220-281: cleanup_snapshots *)

\* describe_snapshots filtered on volume-id only
SnapshotFilter_NoTag(s, volume_list) == s.VolumeId \in Range(volume_list)

\* Lines 224-233: the Filters of describe_snapshots
SnapshotFilter(s, volume_list) ==
    /\ s.VolumeId \in Range(volume_list)
    /\ "CreatedBy" \in DOMAIN s.Tags
    /\ s.Tags["CreatedBy"] = AutomatedBackup

\* What describe_snapshots returns for a snapshot
SnapshotInfo(id) ==
    [SnapshotId |-> id, VolumeId |-> snapshots[id].VolumeId,
     StartTime |-> snapshots[id].StartTime,
     Description |-> snapshots[id].Description, Tags |-> snapshots[id].Tags]

CleanupHead(list, i) == IF i <= Len(list) THEN "is_snapshot_expired" ELSE "ENDING"

\* Lines 273 and 220-240; EC2 returns the snapshots in no specified order.
get_snapshots_info(outcome) ==
    /\ pc = "get_snapshots_info"
    /\ Called("describe_snapshots", volume_ids_list, outcome)
    /\ IF outcome = "ok"
       THEN /\ \E list \in Perms({SnapshotInfo(id) : id \in
                        {i \in DOMAIN snapshots :
                            SnapshotFilter(snapshots[i], volume_ids_list)}}) :
                 /\ snapshot_list' = list
                 /\ sidx' = 1
                 /\ pc' = CleanupHead(list, 1)
            /\ UNCHANGED <<exit_code, raised, log>>
       ELSE /\ HelperFails(outcome, "ENDING")
            /\ UNCHANGED <<snapshot_list, sidx>>
    /\ UNCHANGED <<args, zone, clock, account, run, volume_ids_list, idx,
                   volume_infos, snapshot_id, instance_hostname, tag_no, stdout, checked>>

\* Line 254: the age the script computes for a snapshot
ComputedAge(StartTime) ==
    mktime(timetuple(now, FALSE)) - mktime(timetuple(StartTime, TRUE))

\* >= instead of >
Exceeds_OrEqual(age, expiration_time) == age >= expiration_time

\* Line 254: the comparison
Exceeds(age, expiration_time) == age > expiration_time

\* Lines 243-257. The else of the for loop reads the name snapshot_id, which
\* is bound in no scope is_snapshot_expired sees: NameError. int() of a value
\* that is no integer: ValueError.
is_snapshot_expired(snapshot_info) ==
    IF "ExpirationTime" \in DOMAIN snapshot_info.Tags
    THEN LET expiration_time == int(snapshot_info.Tags["ExpirationTime"])
         IN  IF ~expiration_time.ok THEN "ValueError"
             ELSE IF Exceeds(ComputedAge(snapshot_info.StartTime),
                             expiration_time.val)
                  THEN "True" ELSE "False"
    ELSE "NameError"

\* Lines 274-281, up to the call of delete_snapshot
cleanup_check ==
    /\ pc = "is_snapshot_expired"
    /\ LET expired == is_snapshot_expired(snapshot_list[sidx])
       IN  /\ checked' = Append(checked, [snapshot |-> snapshot_list[sidx],
                                          result |-> expired, at |-> now])
           /\ CASE expired = "True" ->
                  /\ pc' = "delete_snapshot"
                  /\ UNCHANGED <<sidx, exit_code, raised, log>>
               [] expired = "False" ->
                  /\ sidx' = sidx + 1
                  /\ pc' = CleanupHead(snapshot_list, sidx + 1)
                  /\ UNCHANGED <<exit_code, raised, log>>
               [] OTHER ->
                  /\ ScriptExcept(expired)
                  /\ UNCHANGED sidx
    /\ UNCHANGED <<args, zone, clock, account, run, volume_ids_list, idx,
                   volume_infos, snapshot_id, instance_hostname, tag_no,
                   snapshot_list, calls, stdout>>

\* Lines 279 and 259-270
delete_snapshot(outcome, applied) ==
    /\ pc = "delete_snapshot"
    /\ outcome = "ok" => applied
    /\ outcome = "ClientError" => ~applied
    /\ Called("delete_snapshot", snapshot_list[sidx].SnapshotId, outcome)
    /\ IF applied
       THEN snapshots' = WithoutSnapshot(snapshots, snapshot_list[sidx].SnapshotId)
       ELSE UNCHANGED snapshots
    /\ IF outcome = "ok"
       THEN /\ sidx' = sidx + 1
            /\ pc' = CleanupHead(snapshot_list, sidx + 1)
            /\ UNCHANGED <<exit_code, raised, log>>
       ELSE /\ HelperFails(outcome, "is_snapshot_expired")
            /\ UNCHANGED sidx
    /\ UNCHANGED <<args, zone, clock, nextId, createdIn, run, volume_ids_list,
                   idx, volume_infos, snapshot_id, instance_hostname, tag_no,
                   snapshot_list, stdout, checked>>

\* Line 333: the script ends, exit status 0
script_end ==
    /\ pc = "ENDING"
    /\ Exit(0, "none", <<>>)
    /\ UNCHANGED <<args, zone, clock, account, run, locals, calls, stdout, checked>>

----------------------------------------------------------------------------
(* The environment *)

\* Lines 334-336: the user interrupts the run, anywhere in lines 323-333
KeyboardInterrupt ==
    /\ pc \notin {"initialize_aws_api", "exited"}
    /\ ScriptExcept("KeyboardInterrupt")
    /\ UNCHANGED <<args, zone, clock, account, run, locals, calls, stdout, checked>>

\* Time passes between the creation phase and the cleanup phase of a run
\* (a phase itself takes no time here): the age of a snapshot at cleanup is
\* what the expiry decision depends on.
Tick ==
    /\ pc = "get_snapshots_info"
    /\ ticks < MaxTicks
    /\ \E d \in TickSteps : now' = now + d
    /\ ticks' = ticks + 1
    /\ UNCHANGED <<args, zone, account, run, pc, locals, exit_code, raised,
                   calls, log, stdout, checked>>

Next ==
    \/ \E o \in InitOutcomes : initialize_aws_api(o)
    \/ \E o \in Outcomes : print_volumes_infos(o)
    \/ resolve_given
    \/ \E o \in Outcomes : resolve_all(o)
    \/ \E o \in Outcomes : get_volume_infos(o)
    \/ \E o \in Outcomes, a \in BOOLEAN : create_snapshot(o, a)
    \/ \E o \in Outcomes : get_instance_hostname(o)
    \/ \E o \in Outcomes, a \in BOOLEAN : create_tag(o, a)
    \/ \E o \in Outcomes : get_snapshots_info(o)
    \/ cleanup_check
    \/ \E o \in Outcomes, a \in BOOLEAN : delete_snapshot(o, a)
    \/ script_end
    \/ KeyboardInterrupt
    \/ Tick

Spec == Init /\ [][Next]_vars

----------------------------------------------------------------------------
(* A later run: the script is started again with the same options (a timer *)
(* runs it periodically) on the account the earlier run left behind, also  *)
(* when that run was cut short.                                            *)

Rerun ==
    /\ pc = "exited"
    /\ run = 1
    /\ run' = 2
    /\ pc' = "initialize_aws_api"
    /\ volume_ids_list' = <<>>
    /\ idx' = 0
    /\ volume_infos' = NoVolume
    /\ snapshot_id' = 0
    /\ instance_hostname' = <<>>
    /\ tag_no' = 0
    /\ snapshot_list' = <<>>
    /\ sidx' = 0
    /\ exit_code' = NotExited
    /\ raised' = "none"
    /\ calls' = <<>>
    /\ checked' = <<>>
    /\ log' = <<>>
    /\ stdout' = <<>>
    /\ UNCHANGED <<args, zone, clock, account>>

InitRerun ==
    /\ Init
    /\ zone.name = "UTC"
    /\ snapshots = <<>>

NextRerun == Next \/ Rerun

SpecRerun == InitRerun /\ [][NextRerun]_vars

----------------------------------------------------------------------------
(* Properties *)

CallsOf(op) == {k \in 1..Len(calls) : calls[k].op = op}

ThisRun(id) == createdIn[id] = run

HasTag(tags, key, val) == key \in DOMAIN tags /\ tags[key] = val

IntegerTagged(tags) ==
    "ExpirationTime" \in DOMAIN tags /\ int(tags["ExpirationTime"]).ok

\* C1: every delete_snapshot call of a run targets a snapshot that the run's
\* own describe_snapshots query returned, and that snapshot is of a target
\* volume and tagged CreatedBy = AutomatedBackup; no delete is issued before
\* that query.
C1_DeletesOnlyQueried ==
    \A k \in CallsOf("delete_snapshot") :
        /\ \E j \in 1..(k - 1) :
              calls[j].op = "describe_snapshots" /\ calls[j].outcome = "ok"
        /\ \E i \in 1..Len(snapshot_list) :
              /\ snapshot_list[i].SnapshotId = calls[k].arg
              /\ snapshot_list[i].VolumeId \in Range(volume_ids_list)
              /\ HasTag(snapshot_list[i].Tags, "CreatedBy", AutomatedBackup)

\* A run deleted a snapshot and left alone a snapshot of a target volume that
\* carries an ExpirationTime of 0 but no CreatedBy = AutomatedBackup.
C1_Witness ==
    /\ pc = "exited" /\ exit_code = 0
    /\ \E k \in CallsOf("delete_snapshot") : calls[k].outcome = "ok"
    /\ \E id \in DOMAIN snapshots :
          /\ snapshots[id].VolumeId \in Range(volume_ids_list)
          /\ ~HasTag(snapshots[id].Tags, "CreatedBy", AutomatedBackup)
          /\ HasTag(snapshots[id].Tags, "ExpirationTime", str(0))
          /\ now - snapshots[id].StartTime > 0

\* C2: for a snapshot with an integer ExpirationTime tag, is_snapshot_expired
\* is true iff (now - creation time) is strictly greater than ExpirationTime.
C2_ExpiredIffOlder ==
    \A k \in 1..Len(checked) :
        IntegerTagged(checked[k].snapshot.Tags) =>
            ((checked[k].result = "True") <=>
             (checked[k].at - checked[k].snapshot.StartTime
                 > int(checked[k].snapshot.Tags["ExpirationTime"]).val))

\* C3: a snapshot without an ExpirationTime tag is treated as not expired,
\* a warning is logged, and its evaluation does not end the run.
C3_MissingTagIsWarning ==
    \A k \in 1..Len(checked) :
        "ExpirationTime" \notin DOMAIN checked[k].snapshot.Tags =>
            /\ checked[k].result = "False"
            /\ \E i \in 1..Len(log) : log[i][1] = "WARNING"
            /\ raised # "NameError"

CleanupStarted ==
    \/ pc \in {"get_snapshots_info", "is_snapshot_expired", "delete_snapshot",
               "ENDING"}
    \/ pc = "exited" /\ CallsOf("describe_snapshots") # {}

TagsComplete(tags) ==
    /\ {"Name", "ExpirationTime", "CreatedBy"} \subseteq DOMAIN tags
    /\ tags["CreatedBy"] = AutomatedBackup
    /\ int(tags["ExpirationTime"]) =
          [ok |-> TRUE, val |-> args.expire_after * 86400]

\* C4: once the cleanup phase has started, every snapshot created by this run
\* carries Name, ExpirationTime = expire-after days * 86400 and CreatedBy =
\* AutomatedBackup, in the account and in what the cleanup query returned;
\* and every target volume has got its snapshot.
C4_TaggedBeforeCleanup ==
    CleanupStarted =>
        /\ \A id \in DOMAIN snapshots :
              ThisRun(id) => TagsComplete(snapshots[id].Tags)
        /\ \A i \in 1..Len(snapshot_list) :
              ThisRun(snapshot_list[i].SnapshotId)
                  => TagsComplete(snapshot_list[i].Tags)
        /\ \A v \in Range(volume_ids_list) :
              \E k \in CallsOf("create_snapshot") :
                  calls[k].arg = v /\ calls[k].outcome = "ok"

\* The creation phase of a run with expire-after = 1 day has created and
\* tagged a snapshot of each of two volumes and the cleanup phase is over.
C4_Witness ==
    /\ pc = "ENDING"
    /\ args.expire_after = 1
    /\ Cardinality({id \in DOMAIN snapshots : ThisRun(id)}) = 2
    /\ \A id \in DOMAIN snapshots :
          ThisRun(id) => HasTag(snapshots[id].Tags, "ExpirationTime",
                                <<"8", "6", "4", "0", "0">>)

C6_FailFast ==
    /\ \A k \in 1..Len(calls) :
          calls[k].outcome = "ClientError" =>
              /\ k = Len(calls)
              /\ pc = "exited"
              /\ exit_code = 1
    /\ \A k \in CallsOf("create_snapshot") :
          calls[k].outcome = "ok" =>
              \E id \in 1..(nextId - 1) :
                  /\ ThisRun(id)
                  /\ \/ id \in DOMAIN snapshots /\ snapshots[id].VolumeId = calls[k].arg
                     \/ \E d \in CallsOf("delete_snapshot") : calls[d].arg = id

\* A tag request was rejected after the run had created a snapshot: the
\* snapshot is still there, not fully tagged.
C6_Witness ==
    /\ Len(calls) > 0
    /\ calls[Len(calls)].op = "create_tags"
    /\ calls[Len(calls)].outcome = "ClientError"
    /\ \E id \in DOMAIN snapshots :
          ThisRun(id) /\ "CreatedBy" \notin DOMAIN snapshots[id].Tags

\* C7: the exit status is 0 for a successful run, 1 for a known failure
\* (ProfileNotFound, ClientError, KeyboardInterrupt) and 2 for every other exception, also one
\* raised outside the helpers.
C7_ExitCodes ==
    pc = "exited" =>
        exit_code = CASE raised \in {"none", "SystemExit"} -> 0
                      [] raised \in {"ProfileNotFound", "ClientError",
                                     "KeyboardInterrupt"} -> 1
                      [] OTHER -> 2

\* C8: with --list-volumes the script never enters the creation or cleanup
\* phase, makes no call but describe_volumes, and once the volumes are
\* enumerated has printed one line per volume and ended with exit status 0.
C8_ListModeReadOnly ==
    args.list_volumes =>
        /\ pc \in {"initialize_aws_api", "main", "exited"}
        /\ \A k \in 1..Len(calls) :
              calls[k].op = "describe_volumes" /\ calls[k].arg = "all"
        /\ Len(calls) <= 1
        /\ snapshots \in Accounts
        /\ (Len(calls) = 1 /\ calls[1].outcome = "ok") =>
              /\ pc = "exited"
              /\ exit_code = 0
              /\ Len(stdout) = Cardinality(Volumes)

\* --list-volumes together with --volume-ids and an account that holds a
\* snapshot tagged by the script a day ago: printed, ended with 0, the
\* snapshot still there.
C8_Witness ==
    /\ args.list_volumes
    /\ args.volume_ids = <<"vol-1", "vol-2">>
    /\ pc = "exited" /\ exit_code = 0
    /\ Len(stdout) = 2
    /\ \E id \in DOMAIN snapshots :
          /\ HasTag(snapshots[id].Tags, "CreatedBy", AutomatedBackup)
          /\ HasTag(snapshots[id].Tags, "ExpirationTime", str(seconds_in_day))
          /\ now - snapshots[id].StartTime >= seconds_in_day

\* C9: a run issues at most one create_snapshot call per volume, and once the
\* creation phase is complete exactly one for every distinct id of
\* --volume-ids and none for any other volume.
C9_OneSnapshotPerVolume ==
    /\ \A v \in Volumes :
          Cardinality({k \in CallsOf("create_snapshot") : calls[k].arg = v}) <= 1
    /\ CleanupStarted =>
          \A v \in Volumes :
              Cardinality({k \in CallsOf("create_snapshot") : calls[k].arg = v})
                  = IF v \in Range(args.volume_ids) THEN 1 ELSE 0

\* The creation phase for a list with a duplicate is complete.
C9_Witness ==
    /\ pc = "get_snapshots_info"
    /\ Len(args.volume_ids) > Cardinality(Range(args.volume_ids))
    /\ Cardinality(Range(args.volume_ids)) = 2
    /\ Cardinality(CallsOf("create_snapshot")) = 2

ToolCreated(id) == createdIn[id] >= 1

\* C10: in every state, also after runs cut short, a snapshot created by the
\* script that carries CreatedBy = AutomatedBackup carries Name and
\* ExpirationTime too; so every such snapshot a cleanup query returns has all
\* three tags and is evaluated to a verdict, and cleanup neither sees nor
\* deletes a snapshot whose tagging was cut short.
C10_CreatedByImpliesTagged ==
    /\ \A id \in DOMAIN snapshots :
          (ToolCreated(id) /\ "CreatedBy" \in DOMAIN snapshots[id].Tags) =>
              {"Name", "ExpirationTime"} \subseteq DOMAIN snapshots[id].Tags
    /\ \A i \in 1..Len(snapshot_list) :
          ToolCreated(snapshot_list[i].SnapshotId) =>
              {"Name", "ExpirationTime", "CreatedBy"}
                  \subseteq DOMAIN snapshot_list[i].Tags
    /\ \A k \in 1..Len(checked) :
          ToolCreated(checked[k].snapshot.SnapshotId) =>
              checked[k].result \in {"True", "False"}
    /\ \A k \in CallsOf("delete_snapshot") :
          \E i \in 1..Len(snapshot_list) :
              /\ snapshot_list[i].SnapshotId = calls[k].arg
              /\ "CreatedBy" \in DOMAIN snapshot_list[i].Tags

\* A second run has completed its cleanup, deleting a snapshot, on an account
\* where the first run left a snapshot of a target volume with its tagging
\* cut short: that snapshot is still there.
C10_Witness ==
    /\ run = 2
    /\ pc = "exited" /\ exit_code = 0
    /\ \E k \in CallsOf("delete_snapshot") : calls[k].outcome = "ok"
    /\ \E id \in DOMAIN snapshots :
          /\ createdIn[id] = 1
          /\ snapshots[id].VolumeId \in Range(volume_ids_list)
          /\ "ExpirationTime" \in DOMAIN snapshots[id].Tags
          /\ "CreatedBy" \notin DOMAIN snapshots[id].Tags

====
